---- MODULE Spec2Model ----
(***************************************************************************)
(* Model of homework.py: the fitness-tracker calculation hierarchy         *)
(* (Training, Running, SportsWalking, Swimming), the InfoMessage record,   *)
(* the dispatcher read_package and the runner loop of the main block.      *)
(*                                                                         *)
(* Numbers.  Python floats are modelled as exact rationals [n, d] in       *)
(* lowest terms with d > 0; the arithmetic operators below are evaluated   *)
(* in the order the source writes them.  Division by a zero denominator    *)
(* raises ZeroDivisionError, as Python's "/" does for int and float.       *)
(* The Russian string literals of the source are written transliterated,   *)
(* since module text is ASCII.                                             *)
(***************************************************************************)
EXTENDS Integers, Sequences, FiniteSets, TLC

(***************************************************************************)
(* Bounds of the model.                                                    *)
(***************************************************************************)
\* longest data list handed to a constructor
MaxLen == 6
\* number of packages the runner loop processes in one run
MaxPackages == 2

(***************************************************************************)
(* Values: rationals, None, raised exceptions.                             *)
(***************************************************************************)
R(k) == [n |-> k, d |-> 1]

None == [none |-> TRUE]

IsNone(x) == "none" \in DOMAIN x

Exc(kind, msg) == [exc |-> kind, msg |-> msg]

NoError == [exc |-> "None", msg |-> <<>>]

Raised(x) == "exc" \in DOMAIN x

IsNum(x) == "n" \in DOMAIN x

RECURSIVE GCD(_, _)
GCD(a, b) == IF b = 0 THEN a ELSE GCD(b, a % b)

Abs(k) == IF k < 0 THEN -k ELSE k

Q(num, den) ==
    LET g == GCD(Abs(num), den)
    IN  [n |-> num \div g, d |-> den \div g]

\* a * b on floats; an operand that is a raised exception propagates
Mul(a, b) ==
    IF Raised(a) THEN a
    ELSE IF Raised(b) THEN b
    ELSE LET g1 == GCD(Abs(a.n), b.d)
             g2 == GCD(Abs(b.n), a.d)
         IN  [n |-> (a.n \div g1) * (b.n \div g2),
              d |-> (a.d \div g2) * (b.d \div g1)]

\* a / b on floats: ZeroDivisionError when b is zero
Div(a, b) ==
    IF Raised(a) THEN a
    ELSE IF Raised(b) THEN b
    ELSE IF b.n = 0 THEN Exc("ZeroDivisionError", <<"division by zero">>)
    ELSE IF b.n > 0 THEN Mul(a, [n |-> b.d, d |-> b.n])
    ELSE Mul(a, [n |-> -b.d, d |-> -b.n])

\* a + b on floats
Add(a, b) ==
    IF Raised(a) THEN a
    ELSE IF Raised(b) THEN b
    ELSE LET g == GCD(a.d, b.d)
             l == (a.d \div g) * b.d
         IN  Q(a.n * (l \div a.d) + b.n * (l \div b.d), l)

\* a ** 2
Sqr(a) == Mul(a, a)

(***************************************************************************)
(* Class constants.                                                        *)
(***************************************************************************)
M_IN_KM == R(1000)

MIN_IN_H == R(60)

LEN_STEP(cls) == IF cls = "Swimming" THEN Q(138, 100) ELSE Q(65, 100)

Running_CALORIES_MEAN_SPEED_MULTIPLIER == R(18)

Running_CALORIES_MEAN_SPEED_SHIFT == Q(179, 100)

Walking_CALORIES_WEIGHT_MULTIPLIER == Q(35, 1000)

Walking_CALORIES_SPEED_HEIGHT_MULTIPLIER == Q(29, 1000)

KMH_IN_MSEC == Q(278, 1000)

CM_IN_M == R(100)

Swimming_CALORIES_MEAN_SPEED_SHIFT == Q(11, 10)

Swimming_CALORIES_WEIGHT_MULTIPLIER == R(2)

(***************************************************************************)
(* Constructors.  Each takes the positional argument list and either       *)
(* returns the instance or raises TypeError when the number of arguments   *)
(* is not the number of declared parameters (none has a default).          *)
(***************************************************************************)
ArityError(cls) == Exc("TypeError", <<cls, "__init__", "positional arguments">>)

Training_init(cls, args) ==
    IF Len(args) # 3 THEN ArityError(cls)
    ELSE [cls |-> cls, action |-> args[1], duration |-> args[2],
          weight |-> args[3]]

\* variant: surplus arguments are dropped instead of rejected
SportsWalking_init_Lenient(args) ==
    IF Len(args) < 4 THEN ArityError("SportsWalking")
    ELSE [cls |-> "SportsWalking", action |-> args[1], duration |-> args[2],
          weight |-> args[3], height |-> args[4]]

SportsWalking_init(args) ==
    IF Len(args) # 4 THEN ArityError("SportsWalking")
    ELSE [cls |-> "SportsWalking", action |-> args[1], duration |-> args[2],
          weight |-> args[3], height |-> args[4]]

\* variant: the two pool parameters declared in the other order
Swimming_init_Swapped(args) ==
    IF Len(args) # 5 THEN ArityError("Swimming")
    ELSE [cls |-> "Swimming", action |-> args[1], duration |-> args[2],
          weight |-> args[3], length_pool |-> args[5], count_pool |-> args[4]]

Swimming_init(args) ==
    IF Len(args) # 5 THEN ArityError("Swimming")
    ELSE [cls |-> "Swimming", action |-> args[1], duration |-> args[2],
          weight |-> args[3], length_pool |-> args[4], count_pool |-> args[5]]

(***************************************************************************)
(* Methods, dispatched on the class of the instance.                       *)
(***************************************************************************)
Training_get_distance(self) ==
    Div(Mul(self.action, LEN_STEP(self.cls)), M_IN_KM)

Swimming_get_distance(self) ==
    Div(Mul(self.action, LEN_STEP(self.cls)), M_IN_KM)

get_distance(self) ==
    IF self.cls = "Swimming" THEN Swimming_get_distance(self)
    ELSE Training_get_distance(self)

\* variant: a zero duration is answered with speed 0 instead of dividing
Training_get_mean_speed_Guarded(self) ==
    IF self.duration.n = 0 THEN R(0)
    ELSE Div(get_distance(self), self.duration)

Training_get_mean_speed(self) ==
    Div(get_distance(self), self.duration)

\* variant: no override, the inherited distance-based speed
Swimming_get_mean_speed_Base(self) ==
    Div(get_distance(self), self.duration)

Swimming_get_mean_speed(self) ==
    Div(Div(Mul(self.length_pool, self.count_pool), M_IN_KM), self.duration)

get_mean_speed(self) ==
    IF self.cls = "Swimming" THEN Swimming_get_mean_speed(self)
    ELSE Training_get_mean_speed(self)

\* the body of the base method is "pass": it returns None
Training_get_spent_calories(self) == None

\* variant: the hours are not converted to minutes
Running_get_spent_calories_NoMinutes(self) ==
    Mul(Div(Mul(Add(Mul(Running_CALORIES_MEAN_SPEED_MULTIPLIER,
                        get_mean_speed(self)),
                    Running_CALORIES_MEAN_SPEED_SHIFT),
                self.weight),
            M_IN_KM),
        self.duration)

Running_get_spent_calories(self) ==
    Mul(Mul(Div(Mul(Add(Mul(Running_CALORIES_MEAN_SPEED_MULTIPLIER,
                            get_mean_speed(self)),
                        Running_CALORIES_MEAN_SPEED_SHIFT),
                    self.weight),
                M_IN_KM),
            self.duration),
        MIN_IN_H)

SportsWalking_get_spent_calories(self) ==
    Mul(Mul(Add(Mul(Walking_CALORIES_WEIGHT_MULTIPLIER, self.weight),
                Mul(Mul(Div(Sqr(Mul(get_mean_speed(self), KMH_IN_MSEC)),
                            Div(self.height, CM_IN_M)),
                        Walking_CALORIES_SPEED_HEIGHT_MULTIPLIER),
                    self.weight)),
            self.duration),
        MIN_IN_H)

\* variant: the second coefficient added as a shift
Swimming_get_spent_calories_Shift(self) ==
    Mul(Mul(Add(Add(get_mean_speed(self), Swimming_CALORIES_MEAN_SPEED_SHIFT),
                Swimming_CALORIES_WEIGHT_MULTIPLIER),
            self.weight),
        self.duration)

Swimming_get_spent_calories(self) ==
    Mul(Mul(Mul(Add(get_mean_speed(self), Swimming_CALORIES_MEAN_SPEED_SHIFT),
                Swimming_CALORIES_WEIGHT_MULTIPLIER),
            self.weight),
        self.duration)

get_spent_calories(self) ==
    CASE self.cls = "Running" -> Running_get_spent_calories(self)
      [] self.cls = "SportsWalking" -> SportsWalking_get_spent_calories(self)
      [] self.cls = "Swimming" -> Swimming_get_spent_calories(self)
      [] OTHER -> Training_get_spent_calories(self)

(***************************************************************************)
(* InfoMessage and its rendering.                                          *)
(***************************************************************************)
InfoMessage(training_type, duration, distance, speed, calories) ==
    [training_type |-> training_type, duration |-> duration,
     distance |-> distance, speed |-> speed, calories |-> calories]

DigitChar(k) == <<"0", "1", "2", "3", "4", "5", "6", "7", "8", "9">>[k + 1]

RECURSIVE IntDigits(_)
IntDigits(k) ==
    IF k < 10 THEN <<DigitChar(k)>>
    ELSE Append(IntDigits(k \div 10), DigitChar(k % 10))

\* a str value: the sequence of its pieces
Str(pieces) == [str |-> pieces]

\* variant: format(x, ".2f")
Fmt3_TwoDigits(x) ==
    IF IsNone(x)
    THEN Exc("TypeError", <<"unsupported format string passed to NoneType">>)
    ELSE LET a  == Abs(x.n)
             ip == a \div x.d
             r0 == a % x.d
             d1 == (r0 * 10) \div x.d
             r1 == (r0 * 10) % x.d
             d2 == (r1 * 10) \div x.d
             r2 == (r1 * 10) % x.d
             t  == d1 * 10 + d2
             up == 2 * r2 > x.d \/ (2 * r2 = x.d /\ d2 % 2 = 1)
             q  == ip * 100 + t + (IF up THEN 1 ELSE 0)
             f  == q % 100
         IN  Str((IF x.n < 0 THEN <<"-">> ELSE <<>>)
                 \o IntDigits(q \div 100)
                 \o <<".", DigitChar(f \div 10), DigitChar(f % 10)>>)

\* format(x, ".3f"): the value rounded to thousandths (ties to even), written
\* as integer digits, a point and exactly three fractional digits.
\* None has no float format: TypeError.
Fmt3(x) ==
    IF IsNone(x)
    THEN Exc("TypeError", <<"unsupported format string passed to NoneType">>)
    ELSE LET a  == Abs(x.n)
             ip == a \div x.d
             r0 == a % x.d
             d1 == (r0 * 10) \div x.d
             r1 == (r0 * 10) % x.d
             d2 == (r1 * 10) \div x.d
             r2 == (r1 * 10) % x.d
             d3 == (r2 * 10) \div x.d
             r3 == (r2 * 10) % x.d
             t  == d1 * 100 + d2 * 10 + d3
             up == 2 * r3 > x.d \/ (2 * r3 = x.d /\ d3 % 2 = 1)
             q  == ip * 1000 + t + (IF up THEN 1 ELSE 0)
             f  == q % 1000
         IN  Str((IF x.n < 0 THEN <<"-">> ELSE <<>>)
                 \o IntDigits(q \div 1000)
                 \o <<".", DigitChar(f \div 100), DigitChar((f \div 10) % 10),
                      DigitChar(f % 10)>>)

\* the f-string: literal pieces and formatted fields, left to right; the
\* first field that cannot be formatted raises
get_message(self) ==
    LET fields == <<Fmt3(self.duration), Fmt3(self.distance),
                    Fmt3(self.speed), Fmt3(self.calories)>>
        bad == {i \in 1..4 : Raised(fields[i])}
    IN  IF bad # {}
        THEN fields[CHOOSE i \in bad : \A j \in bad : i <= j]
        ELSE Str(<<"Tip trenirovki: ", self.training_type,
                   "; Dlitel'nost': ", fields[1].str,
                   " ch.; Distantsiya: ", fields[2].str,
                   " km; Sr. skorost': ", fields[3].str,
                   " km/ch; Potracheno kkal: ", fields[4].str, ".">>)

(***************************************************************************)
(* The dispatcher.                                                         *)
(***************************************************************************)
Codes == {"SWM", "RUN", "WLK"}

dictionary(code) ==
    CASE code = "SWM" -> "Swimming"
      [] code = "RUN" -> "Running"
      [] code = "WLK" -> "SportsWalking"

Construct(cls, args) ==
    CASE cls = "Swimming" -> Swimming_init(args)
      [] cls = "SportsWalking" -> SportsWalking_init(args)
      [] OTHER -> Training_init(cls, args)

\* variant: an unknown code falls back to Running
read_package_Fallback(code, args) ==
    IF code \notin Codes
    THEN Construct("Running", args)
    ELSE Construct(dictionary(code), args)

read_package(code, args) ==
    IF code \notin Codes
    THEN Exc("KeyError", <<"Oshibka tipa trenirovki ", code>>)
    ELSE Construct(dictionary(code), args)

(***************************************************************************)
(* Inputs: sensor packages.  Rows are drawn per workout kind, then cut or  *)
(* padded to every length up to MaxLen.                                    *)
(***************************************************************************)
UnknownCodes == {"XXX", "swm"}

RunRows ==
    {<<R(a), R(t), R(w)>> : a \in {0, 15000}, t \in {0, 1, 2}, w \in {75, 80}}

WalkRows ==
    {<<R(a), R(t), R(w), R(h)>> :
        a \in {0, 20000, 40000}, t \in {0, 1, 2}, w \in {75, 80},
        h \in {0, 100, 200}}

SwimRows ==
    {<<R(a), R(t), R(w), R(l), R(c)>> :
        a \in {0, 720}, t \in {0, 1, 2}, w \in {80}, l \in {25, 50},
        c \in {0, 40}}

Pad(row) == row \o [i \in 1..(MaxLen - Len(row)) |-> R(1)]

Cuts(rows) == {SubSeq(Pad(row), 1, k) : row \in rows, k \in 0..MaxLen}

Packages ==
    ({"RUN"} \X Cuts(RunRows)) \cup ({"WLK"} \X Cuts(WalkRows))
    \cup ({"SWM"} \X Cuts(SwimRows)) \cup (UnknownCodes \X Cuts(RunRows))

(***************************************************************************)
(* State.                                                                  *)
(***************************************************************************)
VARIABLES
    workout_type,   \* the code of the package being processed
    data,           \* its list of readings
    training,       \* the workout built for it, or None
    distance,       \* show_training_info: evaluated get_distance(), or None
    speed,          \* show_training_info: evaluated get_mean_speed(), or None
    info,           \* the InfoMessage returned by show_training_info, or None
    output,         \* the line printed by main, or None
    error,          \* the exception that ended the run, or NoError
    calls,          \* the calls made for this package, in order
    processed,      \* number of packages taken from the list so far
    pc              \* position of the run

vars == <<workout_type, data, training, distance, speed, info, output, error,
          calls, processed, pc>>

Init ==
    /\ \E p \in Packages : workout_type = p[1] /\ data = p[2]
    /\ training = None
    /\ distance = None
    /\ speed = None
    /\ info = None
    /\ output = None
    /\ error = NoError
    /\ calls = <<>>
    /\ processed = 1
    /\ pc = "start"

Fail(e) ==
    /\ error' = e
    /\ pc' = "failed"

\* training = read_package(workout_type, data)
ReadPackage ==
    /\ pc = "start"
    /\ calls' = Append(calls, "read_package")
    /\ LET r == read_package(workout_type, data)
       IN  IF Raised(r)
           THEN Fail(r) /\ UNCHANGED training
           ELSE training' = r /\ pc' = "built" /\ UNCHANGED error
    /\ UNCHANGED <<workout_type, data, distance, speed, info, output,
                   processed>>

\* training = Training(*data): the base class constructed directly
ConstructTraining ==
    /\ pc = "start"
    /\ calls' = Append(calls, "Training")
    /\ LET r == Training_init("Training", data)
       IN  IF Raised(r)
           THEN Fail(r) /\ UNCHANGED training
           ELSE training' = r /\ pc' = "built" /\ UNCHANGED error
    /\ UNCHANGED <<workout_type, data, distance, speed, info, output,
                   processed>>

\* show_training_info, third constructor argument: self.get_distance()
ShowDistance ==
    /\ pc = "built"
    /\ calls' = Append(calls, "get_distance")
    /\ LET r == get_distance(training)
       IN  IF Raised(r)
           THEN Fail(r) /\ UNCHANGED distance
           ELSE distance' = r /\ pc' = "distance" /\ UNCHANGED error
    /\ UNCHANGED <<workout_type, data, training, speed, info, output,
                   processed>>

\* show_training_info, fourth constructor argument: self.get_mean_speed()
ShowSpeed ==
    /\ pc = "distance"
    /\ calls' = Append(calls, "get_mean_speed")
    /\ LET r == get_mean_speed(training)
       IN  IF Raised(r)
           THEN Fail(r) /\ UNCHANGED speed
           ELSE speed' = r /\ pc' = "speed" /\ UNCHANGED error
    /\ UNCHANGED <<workout_type, data, training, distance, info, output,
                   processed>>

\* variant: distance and speed passed to InfoMessage in the other order
ShowCalories_Swapped ==
    /\ pc = "speed"
    /\ calls' = Append(calls, "get_spent_calories")
    /\ LET r == get_spent_calories(training)
       IN  IF Raised(r)
           THEN Fail(r) /\ UNCHANGED info
           ELSE /\ info' = InfoMessage(training.cls, training.duration,
                                       speed, distance, r)
                /\ pc' = "summarized"
                /\ UNCHANGED error
    /\ UNCHANGED <<workout_type, data, training, distance, speed, output,
                   processed>>

\* show_training_info, fifth constructor argument: self.get_spent_calories(),
\* then the InfoMessage is built from the evaluated arguments and returned
ShowCalories ==
    /\ pc = "speed"
    /\ calls' = Append(calls, "get_spent_calories")
    /\ LET r == get_spent_calories(training)
       IN  IF Raised(r)
           THEN Fail(r) /\ UNCHANGED info
           ELSE /\ info' = InfoMessage(training.cls, training.duration,
                                       distance, speed, r)
                /\ pc' = "summarized"
                /\ UNCHANGED error
    /\ UNCHANGED <<workout_type, data, training, distance, speed, output,
                   processed>>

\* main: print(info.get_message())
PrintMessage ==
    /\ pc = "summarized"
    /\ calls' = Append(calls, "get_message")
    /\ LET r == get_message(info)
       IN  IF Raised(r)
           THEN Fail(r) /\ UNCHANGED output
           ELSE output' = r /\ pc' = "done" /\ UNCHANGED error
    /\ UNCHANGED <<workout_type, data, training, distance, speed, info,
                   processed>>

\* the for loop of the main block takes the next package; the names of the
\* finished iteration are rebound or dropped
NextPackage ==
    /\ pc = "done"
    /\ processed < MaxPackages
    /\ \E p \in Packages : workout_type' = p[1] /\ data' = p[2]
    /\ training' = None
    /\ distance' = None
    /\ speed' = None
    /\ info' = None
    /\ output' = None
    /\ calls' = <<>>
    /\ processed' = processed + 1
    /\ pc' = "start"
    /\ UNCHANGED error

Next ==
    \/ ReadPackage
    \/ ConstructTraining
    \/ ShowDistance
    \/ ShowSpeed
    \/ ShowCalories
    \/ PrintMessage
    \/ NextPackage

Spec == Init /\ [][Next]_vars

(***************************************************************************)
(* Properties.                                                             *)
(***************************************************************************)
ViaReadPackage == calls # <<>> /\ calls[1] = "read_package"

Called(name) == \E i \in 1..Len(calls) : calls[i] = name

Arity(code) ==
    CASE code = "RUN" -> 3
      [] code = "WLK" -> 4
      [] code = "SWM" -> 5

Digits == {"0", "1", "2", "3", "4", "5", "6", "7", "8", "9"}

\* digits, a point, exactly three digits
Fixed3(cs) ==
    /\ Len(cs) >= 5
    /\ cs[Len(cs) - 3] = "."
    /\ \A i \in 1..Len(cs) : i # Len(cs) - 3 => cs[i] \in Digits

NonFinite(x) == "special" \in DOMAIN x

\* C1: read_package with a code outside SWM, RUN, WLK raises the
\* unknown-type error (KeyError) whose message carries the code, whatever the
\* data; no workout is built and nothing later runs.
C1_UnknownTypeRejected ==
    (ViaReadPackage /\ workout_type \notin Codes) =>
        /\ pc = "failed"
        /\ error.exc = "KeyError"
        /\ \E i \in 1..Len(error.msg) : error.msg[i] = workout_type
        /\ IsNone(training)
        /\ IsNone(info)
        /\ calls = <<"read_package">>

C1_Witness ==
    /\ ViaReadPackage
    /\ workout_type = "XXX"
    /\ Len(data) = 3
    /\ pc = "failed"

\* C2: a workout returned by read_package is of the class mapped to the code
\* and carries the data values in parameter order: action, duration, weight,
\* then height (WLK) or length_pool, count_pool (SWM).
C2_DispatchPositional ==
    (ViaReadPackage /\ ~IsNone(training)) =>
        /\ workout_type \in Codes
        /\ training.action = data[1]
        /\ training.duration = data[2]
        /\ training.weight = data[3]
        /\ workout_type = "RUN" =>
              /\ training.cls = "Running"
              /\ DOMAIN training = {"cls", "action", "duration", "weight"}
              /\ Len(data) = 3
        /\ workout_type = "WLK" =>
              /\ training.cls = "SportsWalking"
              /\ DOMAIN training =
                    {"cls", "action", "duration", "weight", "height"}
              /\ training.height = data[4]
              /\ Len(data) = 4
        /\ workout_type = "SWM" =>
              /\ training.cls = "Swimming"
              /\ DOMAIN training =
                    {"cls", "action", "duration", "weight", "length_pool",
                     "count_pool"}
              /\ training.length_pool = data[4]
              /\ training.count_pool = data[5]
              /\ Len(data) = 5

C2_Witness ==
    /\ ViaReadPackage
    /\ pc = "built"
    /\ workout_type = "SWM"
    /\ data = <<R(720), R(1), R(80), R(25), R(40)>>
    /\ training.cls = "Swimming"

\* C3 (as claimed): get_spent_calories on a base Training instance returns
\* no value but raises a not-implemented fault, so show_training_info on it
\* produces no summary.
C3_BaseCaloriesFault ==
    (~IsNone(training) /\ training.cls = "Training"
        /\ Called("get_spent_calories")) =>
        /\ pc = "failed"
        /\ error.exc = "NotImplementedError"
        /\ IsNone(info)

\* C4: for a recognized code and a data list whose length is not the arity
\* of the class, read_package raises the constructor's TypeError; no workout
\* is built, nothing is summarized or printed.
C4_ArityMismatchPropagates ==
    (ViaReadPackage /\ workout_type \in Codes
        /\ Len(data) # Arity(workout_type)) =>
        /\ pc = "failed"
        /\ error.exc = "TypeError"
        /\ IsNone(training)
        /\ IsNone(info)
        /\ IsNone(output)
        /\ calls = <<"read_package">>

C4_Witness ==
    /\ ViaReadPackage
    /\ workout_type = "WLK"
    /\ Len(data) = 5
    /\ pc = "failed"

\* C5: once get_mean_speed has been evaluated on a workout with duration > 0
\* it has a value; for running and walking speed * duration is the distance
\* action * 0.65 / 1000; for swimming speed * duration * 1000 is
\* length_pool * count_pool, the same for every action.
C5_MeanSpeed ==
    (~IsNone(training) /\ training.duration.n > 0
        /\ Called("get_mean_speed")) =>
        /\ IsNum(speed)
        /\ training.cls \in {"Running", "SportsWalking"} =>
              /\ Mul(speed, training.duration) = distance
              /\ Mul(distance, R(100000)) = Mul(training.action, R(65))
        /\ training.cls = "Swimming" =>
              /\ Mul(Mul(speed, training.duration), R(1000))
                    = Mul(training.length_pool, training.count_pool)
              /\ \A a \in {0, 1, 720, 1000} :
                    get_mean_speed([training EXCEPT !.action = R(a)]) = speed

C5_Witness ==
    /\ pc = "speed"
    /\ training.cls = "Swimming"
    /\ training.duration.n > 0
    /\ IsNum(speed)
    /\ Mul(speed, training.duration) # distance

RunScenario ==
    /\ ViaReadPackage
    /\ workout_type = "RUN"
    /\ data = <<R(15000), R(1), R(75)>>

\* C6 (amended): the package RUN [15000, 1, 75] never fails; its summary has
\* distance 9.75, speed 9.75 and calories (18*9.75+1.79)*75/1000*1*60, which
\* is 797.805 and is printed as 797.805.
C6_RunScenario ==
    RunScenario =>
        /\ pc # "failed"
        /\ ~IsNone(info) =>
              /\ info.distance = Q(975, 100)
              /\ info.speed = Q(975, 100)
              /\ info.calories = Q((18 * 975 + 179) * 75 * 1 * 60, 100 * 1000)
              /\ info.calories = Q(797805, 1000)
        /\ ~IsNone(output) =>
              output.str[10] = <<"7", "9", "7", ".", "8", "0", "5">>

C6_Witness == RunScenario /\ pc = "done"

\* C6 (as claimed): the calories of that summary are approximately 798.75
\* (here: within one half of it).
C6_Original ==
    (RunScenario /\ ~IsNone(info)) =>
        /\ info.distance = Q(975, 100)
        /\ info.speed = Q(975, 100)
        /\ 2 * Abs(4 * info.calories.n - 3195 * info.calories.d)
              < 4 * info.calories.d

SwimScenario ==
    /\ ViaReadPackage
    /\ workout_type = "SWM"
    /\ data = <<R(720), R(1), R(80), R(25), R(40)>>

\* C7: the package SWM [720, 1, 80, 25, 40] never fails; its summary has
\* distance 720*1.38/1000 (printed 0.994), speed 1 and calories 336; for
\* every swimming summary calories = (speed + 1.1) * 2 * weight * duration.
C7_SwimScenario ==
    /\ SwimScenario =>
          /\ pc # "failed"
          /\ ~IsNone(info) =>
                /\ info.distance = Q(720 * 138, 100 * 1000)
                /\ info.speed = R(1)
                /\ info.calories = R(336)
          /\ ~IsNone(output) =>
                /\ output.str[6] = <<"0", ".", "9", "9", "4">>
                /\ output.str[8] = <<"1", ".", "0", "0", "0">>
                /\ output.str[10] = <<"3", "3", "6", ".", "0", "0", "0">>
    /\ (~IsNone(info) /\ info.training_type = "Swimming") =>
          Mul(info.calories, R(10))
             = Mul(Mul(Mul(Add(Mul(info.speed, R(10)), R(11)), R(2)),
                       training.weight),
                   training.duration)

C7_Witness == SwimScenario /\ pc = "done"

\* C8: a printed message is the fixed template: the label first, then
\* duration, distance, speed and calories in that order, each with exactly
\* three fractional digits; a whole number k is printed as k.000.
C8_MessageFormat ==
    ~IsNone(output) =>
        LET s == output.str
        IN  /\ Len(s) = 11
            /\ s[1] = "Tip trenirovki: "
            /\ s[2] = info.training_type
            /\ s[3] = "; Dlitel'nost': "
            /\ s[5] = " ch.; Distantsiya: "
            /\ s[7] = " km; Sr. skorost': "
            /\ s[9] = " km/ch; Potracheno kkal: "
            /\ s[11] = "."
            /\ \A i \in {4, 6, 8, 10} : Fixed3(s[i])
            /\ s[4] = Fmt3(info.duration).str
            /\ s[6] = Fmt3(info.distance).str
            /\ s[8] = Fmt3(info.speed).str
            /\ s[10] = Fmt3(info.calories).str
            /\ info.duration.d = 1 =>
                  s[4] = IntDigits(info.duration.n) \o <<".", "0", "0", "0">>
            /\ info.duration = R(1) => s[4] = <<"1", ".", "0", "0", "0">>

C8_Witness ==
    /\ pc = "done"
    /\ info.duration = R(1)
    /\ info.distance.d # 1
    /\ info.distance # info.speed

\* C9 (amended): for a workout with duration 0 get_mean_speed raises
\* ZeroDivisionError: it yields no value at all (neither finite nor
\* infinity/NaN), and no summary is produced or printed.
C9_ZeroDurationRaises ==
    (~IsNone(training) /\ training.duration.n = 0) =>
        /\ IsNone(speed)
        /\ IsNone(info)
        /\ IsNone(output)
        /\ Called("get_mean_speed") =>
              /\ pc = "failed"
              /\ error.exc = "ZeroDivisionError"
              /\ ~Called("get_spent_calories")

C9_Witness ==
    /\ ~IsNone(training)
    /\ training.cls = "Swimming"
    /\ training.duration.n = 0
    /\ Called("get_mean_speed")
    /\ pc = "failed"

\* C9 (as claimed): with duration 0 the division of get_mean_speed yields
\* infinity or NaN.
C9_Original ==
    (~IsNone(training) /\ training.duration.n = 0
        /\ Called("get_mean_speed")) =>
        NonFinite(speed)

\* C10: the summary returned by show_training_info on a concrete workout has
\* the class name as label, the workout's duration, and the values of that
\* instance's get_distance, get_mean_speed and get_spent_calories (swimming:
\* stroke-based distance, pool-based speed); the three are evaluated in the
\* order distance, speed, calories.
C10_Summary ==
    /\ \A i \in 1..Len(calls) :
          /\ calls[i] = "get_mean_speed" => i > 1 /\ calls[i - 1] = "get_distance"
          /\ calls[i] = "get_spent_calories" =>
                i > 1 /\ calls[i - 1] = "get_mean_speed"
    /\ (~IsNone(info) /\ training.cls \in {"Running", "SportsWalking", "Swimming"}) =>
          /\ SubSeq(calls, 2, 4)
                = <<"get_distance", "get_mean_speed", "get_spent_calories">>
          /\ info.training_type = training.cls
          /\ info.duration = training.duration
          /\ info.distance = get_distance(training)
          /\ info.speed = get_mean_speed(training)
          /\ info.calories = get_spent_calories(training)
          /\ training.cls = "Swimming" =>
                /\ Mul(info.distance, R(100000)) = Mul(training.action, R(138))
                /\ Mul(Mul(info.speed, training.duration), R(1000))
                      = Mul(training.length_pool, training.count_pool)

C10_Witness ==
    /\ pc = "summarized"
    /\ training.cls = "Swimming"
    /\ training.action = R(720)
    /\ info.distance # info.speed

====
